---- MODULE Spec2Model ----
(***************************************************************************)
(* A model of the VNPay class (src/src/vnpay.ts): building the signed      *)
(* payment URL (buildPaymentUrl) and verifying the signed return query     *)
(* (verifyReturnUrl).                                                      *)
(*                                                                         *)
(* JavaScript values are records [k, n, s]: k is the kind ("str", "num",   *)
(* "bool", "null", "undef", "nan"), n the number (or 1/0 for a boolean)    *)
(* and s the text of a string.  A text is a sequence of segments, each a   *)
(* maximal run of characters that the form-urlencoded serializer leaves    *)
(* alone (letters, digits, * - . _) or one single other character, so      *)
(* that percent-encoding and decoding are computed segment by segment.     *)
(* An object is a function from its keys to values.                        *)
(*                                                                         *)
(* HMAC-SHA512 is modelled symbolically: the digest of material m under    *)
(* key k is the text "H(k;m)", which is injective in (k, m) (no            *)
(* collisions, the usual perfect-cryptography abstraction).                *)
(***************************************************************************)
EXTENDS Integers, Sequences, FiniteSets, TLC

VARIABLES
    globalConfig,   \* the instance's config: secureSecret, tmnCode, paymentGateway, returnUrl
    defaults,       \* the instance's vnp_Version, vnp_Command, vnp_CurrCode, vnp_Locale, vnp_OrderType
    caller,         \* where the calling code is: "start", "build" or "verify"
    payload,        \* the caller's payload object
    returnQuery,    \* the caller's return-query object
    buildPromise,   \* the promise returned by buildPaymentUrl
    validation,     \* the pending callback of validate(dataValidate).then
    buildLog,       \* what the last buildPaymentUrl call read and computed
    verifyPromise,  \* the promise returned by verifyReturnUrl
    verifyLog,      \* what the last verifyReturnUrl call read and computed
    derived,        \* whether returnQuery was taken from a built URL
    tamper          \* the single field changed in returnQuery after it verified

vars == <<globalConfig, defaults, caller, payload, returnQuery, buildPromise,
          validation, buildLog, verifyPromise, verifyLog, derived, tamper>>

(***************************** bounds **************************************)
\* Caller-supplied amounts range over 0 .. MaxAmount.
MaxAmount == 2

(***************************** values **************************************)
Str(t) == [k |-> "str", n |-> 0, s |-> t]
Num(i) == [k |-> "num", n |-> i, s |-> <<>>]
Bool(b) == [k |-> "bool", n |-> IF b THEN 1 ELSE 0, s |-> <<>>]
Null == [k |-> "null", n |-> 0, s |-> <<>>]
Undefined == [k |-> "undef", n |-> 0, s |-> <<>>]
NaN == [k |-> "nan", n |-> 0, s |-> <<>>]

\* obj.key: a missing property reads as undefined.
Get(obj, key) == IF key \in DOMAIN obj THEN obj[key] ELSE Undefined

\* { ...a, ...b }: b wins on a key conflict.
Spread(a, b) ==
    [key \in DOMAIN a \cup DOMAIN b |-> IF key \in DOMAIN b THEN b[key] ELSE a[key]]

\* obj.key = v
Assign(obj, key, v) ==
    [x \in DOMAIN obj \cup {key} |-> IF x = key THEN v ELSE obj[x]]

\* delete obj.key
Delete(obj, key) == [x \in DOMAIN obj \ {key} |-> obj[x]]

\* !value
FalsyOnlyBlank(v) == v.k \in {"null", "undef"} \/ (v.k = "str" /\ v.s = <<>>)
Falsy(v) ==
    \/ v.k \in {"null", "undef", "nan"}
    \/ v.k = "str" /\ v.s = <<>>
    \/ v.k \in {"num", "bool"} /\ v.n = 0

\* value.toString(), for a value that is neither null nor undefined.
ToStringJS(v) ==
    CASE v.k = "str" -> v.s
      [] v.k = "num" -> <<ToString(v.n)>>
      [] v.k = "bool" -> IF v.n = 1 THEN <<"true">> ELSE <<"false">>
      [] v.k = "nan" -> <<"NaN">>

\* The text of a segment sequence as one string.
RECURSIVE Flat(_)
Flat(t) == IF t = <<>> THEN "" ELSE Head(t) \o Flat(Tail(t))

\* value * 100 (ToNumber, then the product).
Scale == 100
NumericStrings == {<<ToString(i)>> : i \in 0..MaxAmount}
ToNumber(v) ==
    CASE v.k = "num" -> v
      [] v.k = "bool" -> Num(v.n)
      [] v.k = "null" -> Num(0)
      [] v.k = "undef" -> NaN
      [] v.k = "nan" -> NaN
      [] v.k = "str" ->
            IF v.s = <<>> THEN Num(0)
            ELSE IF v.s \in NumericStrings
                 THEN Num(CHOOSE i \in 0..MaxAmount : v.s = <<ToString(i)>>)
                 ELSE NaN
TimesScale(v) ==
    LET x == ToNumber(v) IN IF x.k = "nan" THEN NaN ELSE Num(x.n * Scale)

(********************* URLSearchParams and the URL **************************)
\* The characters the serializer escapes, with their escapes.
Escapes ==
    [c \in {" ", "&", "=", "%", "+", ":", "/"} |->
        CASE c = " " -> "+"
          [] c = "&" -> "%26"
          [] c = "=" -> "%3D"
          [] c = "%" -> "%25"
          [] c = "+" -> "%2B"
          [] c = ":" -> "%3A"
          [] c = "/" -> "%2F"]

EncodeSegment(c) == IF c \in DOMAIN Escapes THEN Escapes[c] ELSE c
DecodeSegment(c) ==
    IF \E d \in DOMAIN Escapes : Escapes[d] = c
    THEN CHOOSE d \in DOMAIN Escapes : Escapes[d] = c
    ELSE c

\* application/x-www-form-urlencoded serialization of one name or value.
Encode(t) == [i \in 1..Len(t) |-> EncodeSegment(t[i])]
Decode(t) == [i \in 1..Len(t) |-> DecodeSegment(t[i])]

\* searchParams.append(name, value) on the list of <<name, value>> pairs.
Append2(params, name, value) == Append(params, <<name, value>>)

\* url.search.slice(1): name=value pairs joined by "&".
RECURSIVE Serialize(_)
Serialize(params) ==
    IF params = <<>> THEN <<>>
    ELSE LET p == Head(params)
             one == <<p[1], "=">> \o Encode(p[2])
         IN IF Len(params) = 1 THEN one
            ELSE one \o <<"&">> \o Serialize(Tail(params))

\* The query string parsed back into its list of <<name, value>> pairs
\* (what new URL(url).searchParams holds).
RECURSIVE SplitAmp(_, _)
SplitAmp(t, cur) ==
    IF t = <<>> THEN IF cur = <<>> THEN <<>> ELSE <<cur>>
    ELSE IF Head(t) = "&"
         THEN (IF cur = <<>> THEN <<>> ELSE <<cur>>) \o SplitAmp(Tail(t), <<>>)
         ELSE SplitAmp(Tail(t), Append(cur, Head(t)))
ParsePair(piece) ==
    IF Len(piece) >= 2 /\ piece[2] = "="
    THEN <<piece[1], Decode(SubSeq(piece, 3, Len(piece)))>>
    ELSE <<piece[1], <<>>>>
ParseQuery(t) == LET pieces == SplitAmp(t, <<>>)
                 IN [i \in 1..Len(pieces) |-> ParsePair(pieces[i])]

\* url.toString(): base, "?", query.
UrlString(base, params) == <<Flat(base), "?">> \o Serialize(params)
UrlQuery(url) == SubSeq(url, 3, Len(url))

(***************************** signing **************************************)
\* crypto.createHmac('sha512', key).update(material).digest('hex')
Hmac(key, material) == <<"H(" \o Flat(key) \o ";" \o Flat(material) \o ")">>

(***************************** key order ************************************)
\* The keys of the model in localeCompare order.
KeyOrder ==
    << "vnp_Amount", "vnp_BankCode", "vnp_Command", "vnp_CreateDate",
       "vnp_CurrCode", "vnp_IpAddr", "vnp_Locale", "vnp_OrderInfo",
       "vnp_OrderType", "vnp_ResponseCode", "vnp_ReturnUrl", "vnp_SecureHash",
       "vnp_SecureHashType", "vnp_TmnCode", "vnp_TxnRef", "vnp_Version" >>
Keys == {KeyOrder[i] : i \in 1..Len(KeyOrder)}
Rank(key) == CHOOSE i \in 1..Len(KeyOrder) : KeyOrder[i] = key

\* key1.localeCompare(key2) < 0
LocaleBefore(key1, key2) == Rank(key1) < Rank(key2)

\* Object.entries(obj).sort(by key): the keys in sorted order.
RECURSIVE SortedKeys(_)
SortedKeys(S) ==
    IF S = {} THEN <<>>
    ELSE LET first == CHOOSE x \in S : \A y \in S \ {x} : LocaleBefore(x, y)
         IN <<first>> \o SortedKeys(S \ {first})

\* The forEach of both paths: skip the empty values, append the others.
RECURSIVE AppendAll(_, _, _)
AppendAll(params, obj, keys) ==
    IF keys = <<>> THEN params
    ELSE LET key == Head(keys)
             value == obj[key]
         IN IF Falsy(value)
            THEN AppendAll(params, obj, Tail(keys))
            ELSE AppendAll(Append2(params, key, ToStringJS(value)), obj, Tail(keys))

SearchParams(obj) == AppendAll(<<>>, obj, SortedKeys(DOMAIN obj))

(***************************** the instance *********************************)
\* PAYMENT_GATEWAY_SANDBOX, the constructor's default gateway.
PAYMENT_GATEWAY_SANDBOX ==
    Str(<<"https", ":", "/", "/", "sandbox.vnpayment.vn", "/", "paymentv2", "/",
          "vpcpay.html">>)

\* The instance's default fields after construction.
InitialDefaults ==
    [vnp_Version |-> Str(<<"2.1.0">>), vnp_Command |-> Str(<<"pay">>),
     vnp_CurrCode |-> Str(<<"VND">>), vnp_Locale |-> Str(<<"vn">>),
     vnp_OrderType |-> Str(<<"other">>)]

\* get configDefault()
ConfigDefault(defs) ==
    [vnp_Version |-> defs.vnp_Version, vnp_Command |-> defs.vnp_Command,
     vnp_CurrCode |-> defs.vnp_CurrCode, vnp_Locale |-> defs.vnp_Locale,
     vnp_OrderType |-> defs.vnp_OrderType]

\* a ?? b
Coalesce(a, b) == IF a.k \in {"null", "undef"} THEN b ELSE a

\* set configDefault(config)
SetDefaults(defs, config) ==
    [vnp_Version |-> Coalesce(Get(config, "vnp_Version"), defs.vnp_Version),
     vnp_Command |-> Coalesce(Get(config, "vnp_Command"), defs.vnp_Command),
     vnp_CurrCode |-> Coalesce(Get(config, "vnp_CurrCode"), defs.vnp_CurrCode),
     vnp_Locale |-> Coalesce(Get(config, "vnp_Locale"), defs.vnp_Locale),
     vnp_OrderType |-> Coalesce(Get(config, "vnp_OrderType"), defs.vnp_OrderType)]

\* validateGlobalConfig(): "" for true, else the message of the Error.
ValidateGatewayFirst(cfg) ==
    IF Falsy(cfg.paymentGateway) THEN "Missing payment gateway"
    ELSE IF Falsy(cfg.secureSecret) THEN "Missing secure secret"
    ELSE IF Falsy(cfg.tmnCode) THEN "Missing merchant code"
    ELSE ""
ValidateGlobalConfig(cfg) ==
    IF Falsy(cfg.secureSecret) THEN "Missing secure secret"
    ELSE IF Falsy(cfg.tmnCode) THEN "Missing merchant code"
    ELSE IF Falsy(cfg.paymentGateway) THEN "Missing payment gateway"
    ELSE ""

(***************************** status codes *********************************)
\* The Vietnamese texts are written without their diacritics (the module is
\* ASCII); distinct messages stay distinct.
CatalogCodes ==
    {"00", "01", "02", "03", "04", "05", "06", "07", "08", "09", "10", "11",
     "24", "51", "65", "75", "default"}

ResponseMap ==
    [c \in CatalogCodes |->
     CASE
      c = "00" -> [vn |-> "Giao dich thanh cong",
                       en |-> "Approved"]
       [] c = "01" -> [vn |-> "Giao dich da ton tai",
                       en |-> "Transaction is already exist"]
       [] c = "02" -> [vn |-> "Merchant khong hop le (kiem tra lai vnp_TmnCode)",
                       en |-> "Invalid merchant (check vnp_TmnCode value)"]
       [] c = "03" -> [vn |-> "Du lieu gui sang khong dung dinh dang",
                       en |-> "Sent data is not in the right format"]
       [] c = "04" -> [vn |-> "Khoi tao GD khong thanh cong do Website dang bi tam khoa",
                       en |-> "Payment website is not available"]
       [] c = "05" -> [vn |-> "Giao dich khong thanh cong do: Quy khach nhap sai mat khau thanh toan qua so lan quy dinh. Xin quy khach vui long thuc hien lai giao dich",
                       en |-> "Transaction failed: Too many wrong password input"]
       [] c = "06" -> [vn |-> "Giao dich khong thanh cong do Quy khach nhap sai mat khau xac thuc giao dich (OTP). Xin quy khach vui long thuc hien lai giao dich.",
                       en |-> "Transaction failed: Wrong OTP input"]
       [] c = "07" -> [vn |-> "Tru tien thanh cong. Giao dich bi nghi ngo (lien quan toi lua dao, giao dich bat thuong). Doi voi giao dich nay can merchant xac nhan thong qua merchant admin: Tu choi/Dong y giao dich",
                       en |-> "This transaction is suspicious"]
       [] c = "08" -> [vn |-> "Giao dich khong thanh cong do: He thong Ngan hang dang bao tri. Xin quy khach tam thoi khong thuc hien giao dich bang the/tai khoan cua Ngan hang nay.",
                       en |-> "Transaction failed: The banking system is under maintenance. Please do not temporarily make transactions by card / account of this Bank."]
       [] c = "09" -> [vn |-> "Giao dich khong thanh cong do: The/Tai khoan cua khach hang chua dang ky dich vu InternetBanking tai ngan hang.",
                       en |-> "Transaction failed: Cards / accounts of customer who has not yet registered for Internet Banking service."]
       [] c = "10" -> [vn |-> "Giao dich khong thanh cong do: Khach hang xac thuc thong tin the/tai khoan khong dung qua 3 lan",
                       en |-> "Transaction failed: Customer incorrectly validate the card / account information more than 3 times"]
       [] c = "11" -> [vn |-> "Giao dich khong thanh cong do: Da het han cho thanh toan. Xin quy khach vui long thuc hien lai giao dich.",
                       en |-> "Transaction failed: Pending payment is expired. Please try again."]
       [] c = "24" -> [vn |-> "Giao dich khong thanh cong do: Khach hang huy giao dich",
                       en |-> "Transaction canceled"]
       [] c = "51" -> [vn |-> "Giao dich khong thanh cong do: Tai khoan cua quy khach khong du so du de thuc hien giao dich.",
                       en |-> "Transaction failed: Your account is not enough balance to make the transaction."]
       [] c = "65" -> [vn |-> "Giao dich khong thanh cong do: Tai khoan cua Quy khach da vuot qua han muc giao dich trong ngay.",
                       en |-> "Transaction failed: Your account has exceeded the daily limit."]
       [] c = "75" -> [vn |-> "Ngan hang thanh toan dang bao tri",
                       en |-> "Banking system is under maintenance"]
       [] c = "default" -> [vn |-> "Giao dich that bai",
                       en |-> "Failure"]]

\* getResponseByStatusCode(responseCode, locale)
GetResponseNoFallback(responseCode, locale) == ResponseMap["00"][locale]
GetResponseByStatusCode(responseCode, locale) ==
    LET respondText == IF responseCode \in DOMAIN ResponseMap
                       THEN ResponseMap[responseCode]
                       ELSE ResponseMap["default"]
    IN respondText[locale]

(***************************** buildPaymentUrl ******************************)
\* if (!payload.vnp_ReturnUrl) payload.vnp_ReturnUrl = globalConfig.returnUrl
WithReturnUrl(cfg, p) ==
    IF Falsy(Get(p, "vnp_ReturnUrl"))
    THEN Assign(p, "vnp_ReturnUrl", cfg.returnUrl)
    ELSE p

\* The merged field set: defaults, payload, then the computed fields.
BuildDataKeepMerchant(cfg, defs, p, now) ==
    LET merged == Spread(ConfigDefault(defs), p)
        dated == Assign(merged, "vnp_CreateDate", now)
    IN Assign(dated, "vnp_Amount", TimesScale(Get(dated, "vnp_Amount")))
BuildData(cfg, defs, p, now) ==
    LET merged == Spread(ConfigDefault(defs), p)
        dated == Assign(merged, "vnp_CreateDate", now)
        scaled == Assign(dated, "vnp_Amount", TimesScale(Get(dated, "vnp_Amount")))
    IN Assign(scaled, "vnp_TmnCode", cfg.tmnCode)

\* validate(new BuildPaymentUrlDTO(data)): the violated fields.
IsText(v) == v.k = "str" /\ v.s # <<>>
Optional(v) == v.k \in {"undef", "null"}
ValidationErrors(data) ==
    {f \in {"vnp_Amount"} : ~(Get(data, f).k = "num" /\ Get(data, f).n > 0)}
    \cup {f \in {"vnp_IpAddr", "vnp_TxnRef", "vnp_OrderInfo", "vnp_TmnCode"} :
            ~IsText(Get(data, f))}
    \cup {f \in {"vnp_ReturnUrl", "vnp_BankCode", "vnp_OrderType"} :
            ~(Optional(Get(data, f)) \/ IsText(Get(data, f)))}
    \cup {f \in {"vnp_Locale"} :
            ~(Optional(Get(data, f)) \/ Get(data, f) \in {Str(<<"vn">>), Str(<<"en">>)})}

(***************************** verifyReturnUrl ******************************)
\* new ReturnQueryFromVNPayDTO(query): a copy holding the query's fields.
ReturnQueryFromVNPayDTO(q) == [key \in DOMAIN q |-> q[key]]

\* delete vnp_SecureHash; delete vnp_SecureHashType
StripAlsoTxnRef(q) ==
    Delete(Delete(Delete(q, "vnp_SecureHash"), "vnp_SecureHashType"), "vnp_TxnRef")
StripSignature(q) == Delete(Delete(q, "vnp_SecureHash"), "vnp_SecureHashType")

\* secureHash === signed
SameHashPresenceOnly(secureHash, signed) == secureHash.k = "str"
SameHash(secureHash, signed) == secureHash.k = "str" /\ secureHash.s = signed

\* vnp_ResponseCode === '00'
IsSuccessCode(v) == v = Str(<<"00">>)

(***************************** promises *************************************)
EmptyObject == [x \in {} |-> Undefined]

PendingBuild == [state |-> "pending", url |-> <<>>, error |-> "", errors |-> {}]
NoBuild == [PendingBuild EXCEPT !.state = "none"]
PendingVerify ==
    [state |-> "pending", isSuccess |-> FALSE, message |-> "",
     fields |-> EmptyObject, error |-> ""]
NoVerify == [PendingVerify EXCEPT !.state = "none"]

\* resolve(url): the first settlement wins.
ResolveUrl(promise, url) ==
    IF promise.state = "pending"
    THEN [promise EXCEPT !.state = "fulfilled", !.url = url]
    ELSE promise

\* reject(err) of the build promise: the first settlement wins.
RejectBuild(promise, error, errors) ==
    IF promise.state = "pending"
    THEN [promise EXCEPT !.state = "rejected", !.error = error, !.errors = errors]
    ELSE promise

NoValidation == [state |-> "idle", errors |-> {}]
NoBuildLog ==
    [called |-> FALSE, payload0 |-> EmptyObject, defaults0 |-> InitialDefaults,
     now |-> Undefined, data |-> EmptyObject, params |-> <<>>, material |-> <<>>,
     signed |-> <<>>, hmacs |-> 0]
NoVerifyLog ==
    [called |-> FALSE, query0 |-> EmptyObject, secureHash |-> Undefined,
     material |-> <<>>, signed |-> <<>>, hmacs |-> 0, matched |-> FALSE]
NoTamper == [key |-> "", old |-> Undefined, new |-> Undefined]
NotDerived == [on |-> FALSE, valid |-> FALSE, signed |-> <<>>]

(***************************** inputs ***************************************)
Secret == Str(<<"SECRET">>)
OtherSecret == Str(<<"OTHER">>)
Merchant == Str(<<"TMNCODE">>)
ShopReturnUrl == Str(<<"http", ":", "/", "/", "shop", "/", "back">>)

\* The configs an instance can be constructed with: every combination of a
\* present or missing secret, merchant code and gateway, and, for the complete
\* ones, a present or missing default return URL.
Configs ==
    [secureSecret : {Secret, Undefined, Str(<<>>)},
     tmnCode : {Merchant, Undefined},
     paymentGateway : {PAYMENT_GATEWAY_SANDBOX, Str(<<>>)},
     returnUrl : {ShopReturnUrl}]
    \cup {[secureSecret |-> Secret, tmnCode |-> Merchant,
           paymentGateway |-> PAYMENT_GATEWAY_SANDBOX, returnUrl |-> Undefined]}

\* The values the canonical query leaves out, as the specification lists them.
EmptyValues == {Num(0), Bool(FALSE), Null, Undefined, Str(<<>>)}

Times == {Str(<<"20240101000000">>), Str(<<"20240101000001">>)}

One(key, v) == [x \in {key} |-> v]

BasePayload ==
    [vnp_IpAddr |-> Str(<<"127.0.0.1">>), vnp_TxnRef |-> Str(<<"T1">>),
     vnp_OrderInfo |-> Str(<<"pay", " ", "T1">>)]
AmountParts ==
    {EmptyObject, One("vnp_Amount", Str(<<"1">>))}
    \cup {One("vnp_Amount", Num(i)) : i \in 0..MaxAmount}
ReturnParts ==
    {EmptyObject, One("vnp_ReturnUrl", Str(<<>>)), One("vnp_ReturnUrl", Str(<<"r">>))}
ExtraParts ==
    {EmptyObject}
    \cup {One("vnp_BankCode", v) : v \in EmptyValues \cup {Str(<<"NCB">>), Bool(TRUE)}}
    \cup {One("vnp_Locale", v) : v \in {Str(<<>>), Str(<<"en">>)}}
    \cup {One("vnp_OrderType", Str(<<"a", "&", "b", "=", "c", "%", "+">>)),
          One("vnp_CreateDate", Str(<<"19990101000000">>)),
          One("vnp_TmnCode", Str(<<"EVIL">>)),
          One("vnp_SecureHash", Str(<<"x">>)),
          One("vnp_SecureHashType", Str(<<"SHA256">>)),
          One("vnp_IpAddr", Null)}
Payloads ==
    {Spread(Spread(BasePayload, a), r) : a \in AmountParts, r \in ReturnParts}
    \cup {Spread(Spread(Spread(BasePayload, One("vnp_Amount", Num(1))), r), x) :
            r \in {EmptyObject, One("vnp_ReturnUrl", Str(<<"r">>))}, x \in ExtraParts}

\* The partial configs handed to the configDefault setter.
DefaultConfigs ==
    {EmptyObject, One("vnp_Locale", Str(<<"en">>)), One("vnp_Locale", Str(<<"vn">>)),
     One("vnp_OrderType", Str(<<"topup">>)), One("vnp_OrderType", Null),
     One("vnp_CurrCode", Undefined)}

BaseQuery ==
    [vnp_Amount |-> Str(<<"100">>), vnp_TxnRef |-> Str(<<"T1">>),
     vnp_TmnCode |-> Merchant]
CodeParts ==
    {EmptyObject}
    \cup {One("vnp_ResponseCode", v) :
            v \in {Str(<<"00">>), Str(<<"24">>), Str(<<"99">>), Str(<<>>), Num(0),
                   Null, Undefined}}
QueryExtraParts ==
    {EmptyObject}
    \cup {One("vnp_BankCode", v) : v \in EmptyValues \cup {Str(<<"NCB">>)}}
    \cup {One("vnp_OrderInfo", Str(<<"pay", " ", "T1", "&", "x">>))}
TypeParts == {EmptyObject, One("vnp_SecureHashType", Str(<<"HmacSHA512">>))}
QueryFields ==
    {Spread(Spread(BaseQuery, c), h) : c \in CodeParts, h \in TypeParts}
    \cup {Spread(Spread(BaseQuery, c), x) :
            c \in {EmptyObject, One("vnp_ResponseCode", Str(<<"00">>))},
            x \in QueryExtraParts}
SignatureKinds == {"none", "good", "other", "bad"}

\* The gateway's own signing of the fields it returns: the fields that carry
\* text, in key order, form-urlencoded, under its copy of the secret.
GatewayText(v) ==
    IF v.k = "str" THEN v.s
    ELSE IF v.k = "num" /\ v.n # 0 THEN <<ToString(v.n)>> ELSE <<>>
GatewayMaterial(fields) ==
    LET signedKeys == SelectSeq(KeyOrder,
                        LAMBDA key : /\ key \in DOMAIN fields
                                     /\ key \notin {"vnp_SecureHash", "vnp_SecureHashType"}
                                     /\ GatewayText(fields[key]) # <<>>)
    IN Serialize([i \in 1..Len(signedKeys) |->
                    <<signedKeys[i], GatewayText(fields[signedKeys[i]])>>])
GatewaySigned(fields, kind) ==
    CASE kind = "none" -> fields
      [] kind = "good" ->
            Assign(fields, "vnp_SecureHash", Str(Hmac(Secret.s, GatewayMaterial(fields))))
      [] kind = "other" ->
            Assign(fields, "vnp_SecureHash",
                   Str(Hmac(OtherSecret.s, GatewayMaterial(fields))))
      [] kind = "bad" -> Assign(fields, "vnp_SecureHash", Str(<<"deadbeef">>))

\* The values a single field of the return query is changed to.
TamperValues ==
    EmptyValues
    \cup {Str(<<"00">>), Str(<<"24">>), Str(<<"100">>), Str(<<"T2">>), Num(100)}

\* Object.fromEntries(searchParams): a later pair of the same name wins.
RECURSIVE FromEntries(_)
FromEntries(params) ==
    IF params = <<>> THEN EmptyObject
    ELSE LET n == Len(params)
         IN Assign(FromEntries(SubSeq(params, 1, n - 1)), params[n][1], Str(params[n][2]))

\* The fields the payload schema knows.
SchemaKeys ==
    {"vnp_Amount", "vnp_BankCode", "vnp_Command", "vnp_CreateDate", "vnp_CurrCode",
     "vnp_IpAddr", "vnp_Locale", "vnp_OrderInfo", "vnp_OrderType", "vnp_ReturnUrl",
     "vnp_TmnCode", "vnp_TxnRef", "vnp_Version"}

(***************************** the state machine ****************************)
Init ==
    /\ globalConfig \in Configs
    /\ defaults = InitialDefaults
    /\ caller = "start"
    /\ payload = EmptyObject
    /\ returnQuery = EmptyObject
    /\ buildPromise = NoBuild
    /\ validation = NoValidation
    /\ buildLog = NoBuildLog
    /\ verifyPromise = NoVerify
    /\ verifyLog = NoVerifyLog
    /\ derived = NotDerived
    /\ tamper = NoTamper

\* vnpay.configDefault = config
SetConfigDefault(config) ==
    /\ caller = "start"
    /\ defaults' = SetDefaults(defaults, config)
    /\ UNCHANGED <<globalConfig, caller, payload, returnQuery, buildPromise,
                   validation, buildLog, verifyPromise, verifyLog, derived, tamper>>

\* The caller prepares a payload for a payment.
NewPayload(p) ==
    /\ caller = "start"
    /\ caller' = "build"
    /\ payload' = p
    /\ UNCHANGED <<globalConfig, defaults, returnQuery, buildPromise, validation,
                   buildLog, verifyPromise, verifyLog, derived, tamper>>

\* buildPaymentUrl(payload): the promise executor, which runs to its end.
BuildPaymentUrl(now) ==
    /\ caller = "build"
    /\ validation.state # "pending"
    /\ LET err == ValidateGlobalConfig(globalConfig)
       IN IF err # ""
          THEN /\ buildPromise' = RejectBuild(PendingBuild, err, {})
               /\ buildLog' = [NoBuildLog EXCEPT !.called = TRUE, !.payload0 = payload,
                                                 !.defaults0 = defaults]
               /\ validation' = NoValidation
               /\ payload' = payload
          ELSE LET p == WithReturnUrl(globalConfig, payload)
                   data == BuildData(globalConfig, defaults, p, now)
                   params == SearchParams(data)
                   material == Serialize(params)
                   signed == Hmac(globalConfig.secureSecret.s, material)
                   final == Append2(params, "vnp_SecureHash", signed)
               IN /\ payload' = p
                  /\ validation' = [state |-> "pending", errors |-> ValidationErrors(data)]
                  /\ buildPromise' =
                        ResolveUrl(PendingBuild, UrlString(globalConfig.paymentGateway.s, final))
                  /\ buildLog' =
                        [called |-> TRUE, payload0 |-> payload, defaults0 |-> defaults,
                         now |-> now, data |-> data, params |-> params,
                         material |-> material, signed |-> signed, hmacs |-> 1]
    /\ UNCHANGED <<globalConfig, defaults, caller, returnQuery, verifyPromise,
                   verifyLog, derived, tamper>>

\* validate(dataValidate).then((err) => { if (err.length > 0) reject(err) })
ValidateThen ==
    /\ validation.state = "pending"
    /\ validation' = [validation EXCEPT !.state = "done"]
    /\ buildPromise' =
          IF validation.errors # {}
          THEN RejectBuild(buildPromise, "ValidationError", validation.errors)
          ELSE buildPromise
    /\ UNCHANGED <<globalConfig, defaults, caller, payload, returnQuery, buildLog,
                   verifyPromise, verifyLog, derived, tamper>>

\* The caller takes the query fields of the built URL, forces the response
\* code to "00" and hands them to verifyReturnUrl.
DeriveReturnQuery ==
    /\ caller = "build"
    /\ buildPromise.state = "fulfilled"
    /\ validation.state = "done"
    /\ caller' = "verify"
    /\ returnQuery' = Assign(FromEntries(ParseQuery(UrlQuery(buildPromise.url))),
                             "vnp_ResponseCode", Str(<<"00">>))
    /\ derived' = [on |-> TRUE,
                   valid |-> /\ validation.errors = {}
                             /\ DOMAIN buildLog.payload0 \subseteq SchemaKeys,
                   signed |-> buildLog.signed]
    /\ payload' = EmptyObject
    /\ buildPromise' = NoBuild
    /\ validation' = NoValidation
    /\ buildLog' = NoBuildLog
    /\ UNCHANGED <<globalConfig, defaults, verifyPromise, verifyLog, tamper>>

\* The gateway redirects back with a query of its own.
GatewayCallback(fields, kind) ==
    /\ caller = "start"
    /\ caller' = "verify"
    /\ returnQuery' = GatewaySigned(fields, kind)
    /\ UNCHANGED <<globalConfig, defaults, payload, buildPromise, validation, buildLog,
                   verifyPromise, verifyLog, derived, tamper>>

\* verifyReturnUrl(returnQuery): the promise executor, which runs to its end
\* or throws (a throw in the executor rejects the promise).
VerifyReturnUrl ==
    /\ caller = "verify"
    /\ verifyPromise.state = "none"
    /\ LET err == ValidateGlobalConfig(globalConfig)
           vnpayReturnQuery == ReturnQueryFromVNPayDTO(returnQuery)
           secureHash == Get(vnpayReturnQuery, "vnp_SecureHash")
           stripped == StripSignature(vnpayReturnQuery)
           code == Get(stripped, "vnp_ResponseCode")
           log == [NoVerifyLog EXCEPT !.called = TRUE, !.query0 = returnQuery,
                                      !.secureHash = secureHash]
       IN IF err # ""
          THEN /\ verifyPromise' = [PendingVerify EXCEPT !.state = "rejected", !.error = err]
               /\ verifyLog' = [log EXCEPT !.secureHash = Undefined]
          ELSE IF code.k \in {"null", "undef"}
          THEN /\ verifyPromise' =
                     [PendingVerify EXCEPT !.state = "rejected", !.error = "TypeError"]
               /\ verifyLog' = log
          ELSE LET message == GetResponseByStatusCode(Flat(ToStringJS(code)),
                                                      Flat(defaults.vnp_Locale.s))
                   material == Serialize(SearchParams(stripped))
                   signed == Hmac(globalConfig.secureSecret.s, material)
                   matched == SameHash(secureHash, signed)
               IN /\ verifyPromise' =
                        [state |-> "fulfilled",
                         isSuccess |-> IF matched THEN IsSuccessCode(code) ELSE FALSE,
                         message |-> IF matched THEN message ELSE "Wrong checksum",
                         fields |-> stripped, error |-> ""]
                  /\ verifyLog' = [log EXCEPT !.material = material, !.signed = signed,
                                              !.hmacs = 1, !.matched = matched]
    /\ UNCHANGED <<globalConfig, defaults, caller, payload, returnQuery, buildPromise,
                   validation, buildLog, derived, tamper>>

\* Someone changes the value of one field of a return query that verified
\* with a matching signature, before it is verified again.
Tamper(key, v) ==
    /\ caller = "verify"
    /\ verifyPromise.state = "fulfilled"
    /\ verifyLog.matched
    /\ tamper = NoTamper
    /\ key \in DOMAIN returnQuery
    /\ v # returnQuery[key]
    /\ returnQuery' = Assign(returnQuery, key, v)
    /\ tamper' = [key |-> key, old |-> returnQuery[key], new |-> v]
    /\ verifyPromise' = NoVerify
    /\ verifyLog' = NoVerifyLog
    /\ UNCHANGED <<globalConfig, defaults, caller, payload, buildPromise, validation,
                   buildLog, derived>>

\* The caller is done with the payment and drops what it held.
Finish ==
    /\ caller # "start"
    /\ validation.state # "pending"
    /\ caller' = "start"
    /\ payload' = EmptyObject
    /\ returnQuery' = EmptyObject
    /\ buildPromise' = NoBuild
    /\ validation' = NoValidation
    /\ buildLog' = NoBuildLog
    /\ verifyPromise' = NoVerify
    /\ verifyLog' = NoVerifyLog
    /\ derived' = NotDerived
    /\ tamper' = NoTamper
    /\ UNCHANGED <<globalConfig, defaults>>

Next ==
    \/ \E config \in DefaultConfigs : SetConfigDefault(config)
    \/ \E p \in Payloads : NewPayload(p)
    \/ \E now \in Times : BuildPaymentUrl(now)
    \/ ValidateThen
    \/ DeriveReturnQuery
    \/ \E fields \in QueryFields, kind \in SignatureKinds : GatewayCallback(fields, kind)
    \/ VerifyReturnUrl
    \/ \E key \in Keys, v \in TamperValues : Tamper(key, v)
    \/ Finish

Spec == Init /\ [][Next]_vars

(***************************** properties ***********************************)
\* The names of the pairs of a parameter list.
Names(params) == {params[i][1] : i \in 1..Len(params)}
SignatureKeys == {"vnp_SecureHash", "vnp_SecureHashType"}
ValidConfig == ValidateGlobalConfig(globalConfig) = ""

\* C1: a payload whose merged field set violates the schema gets no URL: the
\* promise is not settled with a URL while validation is still to report,
\* and once validation has reported, the promise is rejected with the
\* violated fields.
C1_ValidatedBeforeUrl ==
    (buildLog.hmacs = 1 /\ validation.errors # {}) =>
        /\ buildPromise.state # "fulfilled"
        /\ validation.state = "done" =>
              /\ buildPromise.state = "rejected"
              /\ buildPromise.errors = validation.errors

\* A payload the schema accepts, made of the schema's fields only.
C2_ValidBuild ==
    /\ buildPromise.state = "fulfilled"
    /\ validation.state = "done"
    /\ validation.errors = {}
    /\ DOMAIN buildLog.payload0 \subseteq SchemaKeys

\* C2 (as stated): the query fields of a built URL, with the response code
\* forced to "00", verify with isSuccess = true.
C2_RoundTripSucceeds ==
    (derived.on /\ derived.valid /\ verifyPromise.state # "none") =>
        /\ verifyPromise.state = "fulfilled"
        /\ verifyPromise.isSuccess

\* C2 (amended): the signature recomputed on the verify path over the query
\* fields of a built URL, minus the signature, is the one build embedded; with
\* the response code "00" added to those fields, which build never signed,
\* verifyReturnUrl recomputes another signature and resolves with
\* isSuccess = false and "Wrong checksum".
C2_RoundTripSignature ==
    /\ C2_ValidBuild =>
          LET fields == FromEntries(ParseQuery(UrlQuery(buildPromise.url)))
              stripped == StripSignature(ReturnQueryFromVNPayDTO(fields))
              recomputed == Hmac(globalConfig.secureSecret.s,
                                 Serialize(SearchParams(stripped)))
          IN /\ Get(fields, "vnp_SecureHash") = Str(buildLog.signed)
             /\ recomputed = buildLog.signed
    /\ (derived.on /\ derived.valid /\ verifyPromise.state # "none") =>
          /\ verifyPromise.state = "fulfilled"
          /\ ~verifyPromise.isSuccess
          /\ verifyPromise.message = "Wrong checksum"
          /\ verifyLog.signed # derived.signed
          /\ verifyLog.secureHash = Str(derived.signed)

\* C2 witness: a valid payload was built, its URL's fields were verified.
C2_Witness ==
    /\ derived.on
    /\ derived.valid
    /\ verifyPromise.state = "fulfilled"
    /\ "vnp_OrderType" \in DOMAIN verifyLog.query0
    /\ verifyLog.query0["vnp_OrderType"] = Str(<<"a", "&", "b", "=", "c", "%", "+">>)

\* C3 (as stated): after any single field of a return query that verified
\* with a matching signature is changed to a different value, the result is
\* isSuccess = false with "Wrong checksum".
C3_AnyTamperDetected ==
    (tamper # NoTamper /\ verifyPromise.state # "none") =>
        /\ verifyPromise.state = "fulfilled"
        /\ ~verifyPromise.isSuccess
        /\ verifyPromise.message = "Wrong checksum"

\* C3 (amended): after any single field other than vnp_SecureHashType is
\* changed from one string to a different string, the result is
\* isSuccess = false with "Wrong checksum".
C3_SignedTextTamperDetected ==
    (/\ tamper # NoTamper
     /\ tamper.key # "vnp_SecureHashType"
     /\ tamper.old.k = "str"
     /\ tamper.new.k = "str"
     /\ verifyPromise.state # "none") =>
        /\ verifyPromise.state = "fulfilled"
        /\ ~verifyPromise.isSuccess
        /\ verifyPromise.message = "Wrong checksum"

\* C3 witness: the amount of a verified query was changed and the query
\* verified again.
C3_Witness ==
    /\ tamper.key = "vnp_Amount"
    /\ tamper.old = Str(<<"100">>)
    /\ tamper.new = Str(<<"24">>)
    /\ verifyPromise.state = "fulfilled"
    /\ verifyPromise.message = "Wrong checksum"

\* C4: with a valid config, a return query whose provided signature is not
\* the recomputed one (a missing signature or response code included) gets a
\* resolved result with isSuccess = false and "Wrong checksum", never a
\* rejection.
C4_MismatchIsAResult ==
    LET q == verifyLog.query0
        recomputed == Hmac(globalConfig.secureSecret.s,
                           Serialize(SearchParams(StripSignature(q))))
    IN (/\ verifyLog.called
        /\ ValidConfig
        /\ Get(q, "vnp_SecureHash") # Str(recomputed)) =>
            /\ verifyPromise.state = "fulfilled"
            /\ ~verifyPromise.isSuccess
            /\ verifyPromise.message = "Wrong checksum"

\* The first missing config field, in the order secret, merchant code, gateway.
C5_Missing(v) == v \in {Undefined, Null, Str(<<>>)}
C5_FirstMissing ==
    IF C5_Missing(globalConfig.secureSecret) THEN "Missing secure secret"
    ELSE IF C5_Missing(globalConfig.tmnCode) THEN "Missing merchant code"
    ELSE IF C5_Missing(globalConfig.paymentGateway) THEN "Missing payment gateway"
    ELSE ""

\* C5: with a config field missing, buildPaymentUrl and verifyReturnUrl
\* reject with the error of the first missing field (secret, merchant code,
\* gateway), no HMAC is computed, and no URL or result is produced.
C5_ConfigCheckedFirst ==
    C5_FirstMissing # "" =>
        /\ buildLog.called =>
              /\ buildPromise.state = "rejected"
              /\ buildPromise.error = C5_FirstMissing
              /\ buildPromise.url = <<>>
              /\ buildLog.hmacs = 0
              /\ validation.state = "idle"
        /\ verifyLog.called =>
              /\ verifyPromise.state = "rejected"
              /\ verifyPromise.error = C5_FirstMissing
              /\ verifyPromise.fields = EmptyObject
              /\ verifyLog.hmacs = 0

\* C5 witness: a config missing its merchant code and its gateway, a build
\* call rejected with the merchant-code error.
C5_Witness ==
    /\ ~C5_Missing(globalConfig.secureSecret)
    /\ C5_Missing(globalConfig.tmnCode)
    /\ C5_Missing(globalConfig.paymentGateway)
    /\ buildLog.called
    /\ buildPromise.error = "Missing merchant code"

\* C6: in a resolved verification, isSuccess holds exactly when the provided
\* signature is the recomputed one and the response code is "00"; on a
\* mismatch the message is "Wrong checksum"; on a match it is the catalog
\* entry of the response code in the instance's locale, the "default" entry
\* for a code the catalog does not hold.
C6_VerifyOutcome ==
    verifyPromise.state = "fulfilled" =>
        LET q == verifyLog.query0
            match == Get(q, "vnp_SecureHash") = Str(verifyLog.signed)
            code == Get(q, "vnp_ResponseCode")
            text == Flat(ToStringJS(code))
            locale == Flat(defaults.vnp_Locale.s)
            entry == IF text \in CatalogCodes THEN text ELSE "default"
        IN /\ verifyPromise.isSuccess <=> (match /\ code = Str(<<"00">>))
           /\ ~match => verifyPromise.message = "Wrong checksum"
           /\ match => verifyPromise.message = ResponseMap[entry][locale]

\* C6 witness: a matching signature with a response code outside the catalog,
\* in the English locale.
C6_Witness ==
    /\ verifyPromise.state = "fulfilled"
    /\ verifyLog.matched
    /\ Get(verifyLog.query0, "vnp_ResponseCode") = Str(<<"99">>)
    /\ verifyPromise.message = "Failure"

\* The signature of a field set as each path computes it.
C7_Signature(fields) ==
    Hmac(globalConfig.secureSecret.s, Serialize(SearchParams(fields)))
C7_EmptyLeftOut(fields, params, signed) ==
    /\ \A key \in DOMAIN fields : fields[key] \in EmptyValues => key \notin Names(params)
    /\ \A key \in Keys \ (DOMAIN fields \cup SignatureKeys), e \in EmptyValues :
          C7_Signature(Assign(fields, key, e)) = signed
    /\ \A key \in DOMAIN fields \ SignatureKeys :
          fields[key] \in EmptyValues => C7_Signature(Delete(fields, key)) = signed

C8_UrlShape ==
    buildPromise.state = "fulfilled" =>
        LET params == ParseQuery(UrlQuery(buildPromise.url))
            n == Len(params)
        IN /\ n >= 1
           /\ params[n][1] = "vnp_SecureHash"
           /\ \A i \in 1..(n - 1) : params[i][1] # "vnp_SecureHash"
           /\ \A i, j \in 1..(n - 1) : i < j => LocaleBefore(params[i][1], params[j][1])
           /\ buildLog.material = Serialize(SubSeq(params, 1, n - 1))
           /\ "vnp_SecureHash" \notin Names(ParseQuery(buildLog.material))

\* What the payload's amount becomes, for a numeric amount.
C9_AmountOk(p, data) ==
    Get(p, "vnp_Amount").k = "num" =>
        data["vnp_Amount"] = Num(Get(p, "vnp_Amount").n * 100)
C9_ReturnUrl(p) ==
    IF Get(p, "vnp_ReturnUrl") \in EmptyValues
    THEN globalConfig.returnUrl
    ELSE p["vnp_ReturnUrl"]
C9_Overlay(p, defs, key) == IF key \in DOMAIN p THEN p[key] ELSE defs[key]
C9_Emitted(data, params) ==
    /\ Names(params) = {key \in DOMAIN data : data[key] \notin EmptyValues \cup {NaN}}
    /\ \A i \in 1..Len(params) : params[i][2] = ToStringJS(data[params[i][1]])

\* C9 (as stated): the field set build signs and emits is the defaults
\* overlaid by the payload, with only the return URL, the amount and the
\* merchant code replaced.
C9_FieldSetAsClaimed ==
    buildLog.hmacs = 1 =>
        LET p == buildLog.payload0
            defs == buildLog.defaults0
            data == buildLog.data
        IN /\ DOMAIN data = DOMAIN defs \cup DOMAIN p
                              \cup {"vnp_ReturnUrl", "vnp_Amount", "vnp_TmnCode"}
           /\ C9_AmountOk(p, data)
           /\ \A key \in DOMAIN data :
                 CASE key = "vnp_TmnCode" -> data[key] = globalConfig.tmnCode
                   [] key = "vnp_Amount" -> TRUE
                   [] key = "vnp_ReturnUrl" -> data[key] = C9_ReturnUrl(p)
                   [] OTHER -> data[key] = C9_Overlay(p, defs, key)
           /\ C9_Emitted(data, buildLog.params)

\* C9 (amended): the field set build signs and emits is the defaults overlaid
\* by the payload, with the return URL, the amount and the merchant code
\* replaced as stated, and the creation date replaced by the call's timestamp
\* whatever the payload supplied.
C9_FieldSet ==
    buildLog.hmacs = 1 =>
        LET p == buildLog.payload0
            defs == buildLog.defaults0
            data == buildLog.data
        IN /\ DOMAIN data = DOMAIN defs \cup DOMAIN p
                              \cup {"vnp_ReturnUrl", "vnp_Amount", "vnp_TmnCode",
                                    "vnp_CreateDate"}
           /\ C9_AmountOk(p, data)
           /\ \A key \in DOMAIN data :
                 CASE key = "vnp_TmnCode" -> data[key] = globalConfig.tmnCode
                   [] key = "vnp_Amount" -> TRUE
                   [] key = "vnp_ReturnUrl" -> data[key] = C9_ReturnUrl(p)
                   [] key = "vnp_CreateDate" -> data[key] = buildLog.now
                   [] OTHER -> data[key] = C9_Overlay(p, defs, key)
           /\ C9_Emitted(data, buildLog.params)

\* C9 witness: a build of a payload that names another merchant and has no
\* return URL, with the amount 1.
C9_Witness ==
    /\ buildLog.hmacs = 1
    /\ Get(buildLog.payload0, "vnp_TmnCode") = Str(<<"EVIL">>)
    /\ "vnp_ReturnUrl" \notin DOMAIN buildLog.payload0
    /\ buildLog.data["vnp_Amount"] = Num(100)
    /\ buildLog.data["vnp_TmnCode"] = Merchant

\* C10: a call leaves the caller's payload and return query as it found them.
C10_InputsUntouched ==
    /\ buildLog.called => payload = buildLog.payload0
    /\ verifyLog.called => returnQuery = verifyLog.query0
====
